---- MODULE Spec2Model ----
(***************************************************************************)
(* Model of the embeddings / vector-similarity script of                   *)
(* src/tools/embeddings-vector-search/goose-review-bot.md (lines 196-337): *)
(* chunkMarkdownBySections, processMarkdownFile (ingest) and               *)
(* performSimilaritySearch (query) over the markdown_chunks table of       *)
(* src/tools/embeddings-vector-search/db/schema.ts.                        *)
(*                                                                         *)
(* Text is modelled as a sequence of one-character strings, so that the    *)
(* split of the chunker is computed position by position as the regular    *)
(* expression engine computes it.                                          *)
(***************************************************************************)
EXTENDS Integers, Sequences, FiniteSets, TLC

(***************************************************************************)
(* Bounds of the model.                                                    *)
(***************************************************************************)
\* longest document drawn for the chunker
MaxDocLen == 8

\* largest number of rows of markdown_chunks
MaxStore == 2

\* largest LIMIT handed to performSimilaritySearch
MaxLimit == 3

(***************************************************************************)
(* Text.                                                                   *)
(***************************************************************************)
Chars == {"#", " ", "\n", "a"}

\* the characters after which /^/m matches (ECMAScript LineTerminator)
LineTerminators == {"\n", "\r"}

Texts(n) == UNION {[1..k -> Chars] : k \in 0..n}

\* s.substring(from, to), 0-based, end exclusive
Substring(s, from, to) == SubSeq(s, from + 1, to)

RECURSIVE Concat(_)
Concat(ss) == IF ss = <<>> THEN <<>> ELSE Head(ss) \o Concat(Tail(ss))

\* s.startsWith('## ')
StartsWithMarker(s) ==
    /\ Len(s) >= 3
    /\ s[1] = "#" /\ s[2] = "#" /\ s[3] = " "

(***************************************************************************)
(* chunkMarkdownBySections: markdownContent.split(/(?=^## )/m)             *)
(*                                         .filter(Boolean)                *)
(***************************************************************************)
\* the pattern without the line anchor: /(?=## )/
MatchesAt_anywhere(s, q) ==
    /\ q + 3 <= Len(s)
    /\ s[q + 1] = "#" /\ s[q + 2] = "#" /\ s[q + 3] = " "

\* does /(?=^## )/m match (with the empty string) at 0-based position q
MatchesAt(s, q) ==
    /\ (q = 0 \/ s[q] \in LineTerminators)
    /\ q + 3 <= Len(s)
    /\ s[q + 1] = "#" /\ s[q + 2] = "#" /\ s[q + 3] = " "

\* the loop of RegExp.prototype[Symbol.split]: p is the start of the span
\* being collected, q the position tried; a match is of width zero, so its
\* end e is q, and a match at e = p does not split
RECURSIVE SplitLoop(_, _, _)
SplitLoop(s, p, q) ==
    IF q >= Len(s)
    THEN <<Substring(s, p, Len(s))>>
    ELSE IF MatchesAt(s, q) /\ q # p
         THEN <<Substring(s, p, q)>> \o SplitLoop(s, q, q)
         ELSE SplitLoop(s, p, q + 1)

Split(s) ==
    IF Len(s) = 0
    THEN IF MatchesAt(s, 0) THEN <<>> ELSE <<s>>
    ELSE SplitLoop(s, 0, 0)

\* Boolean(x) of a string: the empty string is falsy
Truthy(x) == Len(x) > 0

FilterBoolean(ss) == SelectSeq(ss, Truthy)

\* outcomes of a call: a returned value or a thrown error
Return(v) == [kind |-> "return", value |-> v, error |-> "none"]
Throw(e) == [kind |-> "throw", value |-> <<>>, error |-> e]
NoResult == [kind |-> "none", value |-> <<>>, error |-> "none"]

\* a chunker that leaves out the span before the first marker
chunkMarkdownBySections_noPreamble(markdownContent) ==
    LET sections == FilterBoolean(Split(markdownContent))
    IN  IF Len(sections) = 0
        THEN Throw("TypeError")
        ELSE IF ~StartsWithMarker(sections[1])
             THEN Return(Tail(sections))
             ELSE Return(sections)

\* sections[0] of an empty array is undefined, and undefined.startsWith
\* throws a TypeError; both branches of the conditional are sections
chunkMarkdownBySections(markdownContent) ==
    LET sections == FilterBoolean(Split(markdownContent))
    IN  IF Len(sections) = 0
        THEN Throw("TypeError")
        ELSE IF ~StartsWithMarker(sections[1])
             THEN Return(sections)
             ELSE Return(sections)

(***************************************************************************)
(* Rendering of a section to the text that is embedded and stored:         *)
(* marked.parse(section).replace(/<[^>]*>/g, ' ').  A heading line         *)
(* "## x" is rendered <h2>x</h2>\n and a line of text <p>x</p>\n; each tag *)
(* is then replaced by one space.  Blank lines render to nothing.          *)
(***************************************************************************)
RECURSIVE Lines(_, _)
Lines(s, acc) ==
    IF s = <<>>
    THEN IF acc = <<>> THEN <<>> ELSE <<acc>>
    ELSE IF Head(s) = "\n"
         THEN <<acc>> \o Lines(Tail(s), <<>>)
         ELSE Lines(Tail(s), Append(acc, Head(s)))

RenderLine(l) ==
    IF \A i \in 1..Len(l) : l[i] = " "
    THEN <<>>
    ELSE IF StartsWithMarker(l)
         THEN <<" ">> \o SubSeq(l, 4, Len(l)) \o <<" ", "\n">>
         ELSE <<" ">> \o l \o <<" ", "\n">>

RECURSIVE RenderLines(_)
RenderLines(ls) ==
    IF ls = <<>> THEN <<>> ELSE RenderLine(Head(ls)) \o RenderLines(Tail(ls))

PlainText(section) == RenderLines(Lines(section, <<>>))

(***************************************************************************)
(* Vectors and the cosine distance operator <=> of the store.  Distances   *)
(* and similarities are in units of 1/SimScale; the vectors of the model   *)
(* have integer norms that divide SimScale, so the values are exact.       *)
(***************************************************************************)
SimScale == 100

\* the embeddings the provider answers with: <<3,4>> and <<6,8>> have the
\* same direction, <<4,3>> is at distance 4 of both
Vectors == {<<3, 4>>, <<4, 3>>, <<6, 8>>}

\* vector("embedding", { dimensions: 1536 }): the dimensionality of the
\* column, scaled down to the two components of the vectors of the model
Dimensions == 2

\* a component that is no number (undefined, NaN, a string)
NotANumber == 0 - 1

Numeric(v) == \A i \in DOMAIN v : v[i] # NotANumber

\* what the column embedding accepts
WellFormed(v) == Len(v) = Dimensions /\ Numeric(v)

\* embeddings of a malformed response: of another dimensionality, or with a
\* component that is no number
MalformedVectors == {<<5>>, <<NotANumber, 4>>}

Dot(a, b) == a[1] * b[1] + a[2] * b[2]

Norm(a) == CHOOSE n \in 0..20 : n * n = Dot(a, a)

CosineDistance(a, b) == SimScale - (SimScale * Dot(a, b)) \div (Norm(a) * Norm(b))

\* 1 - (embedding <=> $1::vector) as similarity
Similarity(a, b) == SimScale - CosineDistance(a, b)

Min(a, b) == IF a < b THEN a ELSE b

(***************************************************************************)
(* SELECT ... FROM markdown_chunks ORDER BY embedding <=> $1 LIMIT $2.     *)
(* The outcome is a sequence of row numbers of the table.  The statement   *)
(* names no second sort key, so rows at equal distance come in any order;  *)
(* a negative LIMIT is rejected by the database.                           *)
(***************************************************************************)
Injective(f) == \A i, j \in DOMAIN f : f[i] = f[j] => i = j

\* the orders in which the database may answer with k of the n rows
OrderedSelections(rows, q, k) ==
    {sel \in [1..k -> 1..Len(rows)] :
        /\ Injective(sel)
        /\ \A i \in 1..(k - 1) :
               CosineDistance(rows[sel[i]].embedding, q)
                   <= CosineDistance(rows[sel[i + 1]].embedding, q)
        /\ \A i \in 1..k : \A r \in 1..Len(rows) :
               (\A j \in 1..k : sel[j] # r) =>
                   CosineDistance(rows[sel[i]].embedding, q)
                       <= CosineDistance(rows[r].embedding, q)}

\* ORDER BY left out: any k rows in any order
SelectNearest_unordered(rows, q, lim) ==
    IF lim < 0
    THEN {Throw("DatabaseError")}
    ELSE {Return(sel) : sel \in
              {f \in [1..Min(lim, Len(rows)) -> 1..Len(rows)] : Injective(f)}}

\* ORDER BY ... DESC: the farthest rows first
SelectNearest_descending(rows, q, lim) ==
    IF lim < 0
    THEN {Throw("DatabaseError")}
    ELSE LET k == Min(lim, Len(rows))
         IN  {Return([i \in 1..k |-> sel[Len(rows) + 1 - i]]) :
                  sel \in OrderedSelections(rows, q, Len(rows))}

\* LIMIT left out: every row
SelectNearest_noLimit(rows, q, lim) ==
    IF lim < 0
    THEN {Throw("DatabaseError")}
    ELSE {Return(sel) : sel \in OrderedSelections(rows, q, Len(rows))}

\* a negative LIMIT taken as 'no limit'
SelectNearest_negativeAll(rows, q, lim) ==
    LET k == IF lim < 0 THEN Len(rows) ELSE Min(lim, Len(rows))
    IN  {Return(sel) : sel \in OrderedSelections(rows, q, k)}

SelectNearest(rows, q, lim) ==
    IF lim < 0
    THEN {Throw("DatabaseError")}
    ELSE {Return(sel) : sel \in OrderedSelections(rows, q, Min(lim, Len(rows)))}

\* pool.query(SELECT ..., [embeddingString, limit]): the parameter
\* $1::vector is parsed when the statement is bound, and a text that is no
\* vector is refused there; the dimensions of $1 are compared with those of
\* a row only when <=> is computed for a row, which LIMIT 0 and an empty
\* table never do
QueryOutcomes(rows, q, lim) ==
    IF ~Numeric(q)
    THEN {Throw("DatabaseError")}
    ELSE IF Len(q) # Dimensions
         THEN IF lim < 0 \/ (lim > 0 /\ Len(rows) > 0)
              THEN {Throw("DatabaseError")}
              ELSE {Return(<<>>)}
         ELSE SelectNearest(rows, q, lim)

\* an INSERT that takes any vector
\* an insert that first empties the table
InsertRow_truncating(rows, text, v) ==
    IF WellFormed(v)
    THEN Return(<<[id |-> 1, chunk_text |-> text, embedding |-> v]>>)
    ELSE Throw("DatabaseError")

InsertRow_unchecked(rows, text, v) ==
    Return(Append(rows, [id |-> Len(rows) + 1, chunk_text |-> text,
                         embedding |-> v]))

\* INSERT INTO markdown_chunks (chunk_text, embedding)
\* VALUES ($1, $2::vector): the column is vector(1536) NOT NULL, so a text
\* that is no vector or a vector of another dimensionality is refused and
\* no row is written
InsertRow(rows, text, v) ==
    IF WellFormed(v)
    THEN Return(Append(rows, [id |-> Len(rows) + 1, chunk_text |-> text,
                              embedding |-> v]))
    ELSE Throw("DatabaseError")

\* results.rows.map(row => ({text: row.chunk_text, similarity: row.similarity}))
MapRows(rows, q, sel) ==
    [i \in 1..Len(sel) |->
        [text |-> rows[sel[i]].chunk_text,
         similarity |-> Similarity(rows[sel[i]].embedding, q)]]

(***************************************************************************)
(* Errors of the two external services.                                    *)
(***************************************************************************)
\* client.embeddings.create rejects
EmbedErrors == {"APIError", "APIConnectionError"}

\* pool.query rejects: the connection fails, or the database refuses the
\* statement
StoreErrors == {"ConnectionError", "DatabaseError"}

\* catch (error) { console.error(...); throw error; } of processMarkdownFile
ProcessCatch(error) == Throw(error)

\* a catch that answers the empty list
SearchCatch_swallow(error) == Return(<<>>)

\* catch (error) { console.error(...); throw error; } of
\* performSimilaritySearch
SearchCatch(error) == Throw(error)

(***************************************************************************)
(* Inputs of the calls.                                                    *)
(***************************************************************************)
\* "", "a", "## a\n## b", "b\n## a\n## b"
Docs ==
    { <<>>,
      <<"a">>,
      <<"#", "#", " ", "a", "\n", "#", "#", " ", "b">>,
      <<"b", "\n", "#", "#", " ", "a", "\n", "#", "#", " ", "b">> }

\* " a \n" (the text stored for the section "a") and the empty prompt
Prompts == { <<" ", "a", " ", "\n">>, <<>> }

\* the texts handed to the provider: the rendered sections of the documents
\* and the prompts
EmbedTexts ==
    UNION { {PlainText(chunkMarkdownBySections(d).value[i]) :
                 i \in 1..Len(chunkMarkdownBySections(d).value)} : d \in Docs }
        \cup Prompts

Limits == (0 - 1)..MaxLimit

(***************************************************************************)
(* State.                                                                  *)
(***************************************************************************)
VARIABLES
    pc,         \* position of the running call, "idle" between calls
    doc,        \* markdownContent of the running chunker / ingest call
    result,     \* outcome of the call that has just ended
    store,      \* the rows of markdown_chunks, in insertion order
    sections,   \* the chunks of the running ingest
    idx,        \* 1-based index of the chunk being processed
    prompt,     \* prompt of the running search
    limit,      \* limit of the running search
    embedding,  \* the vector the provider answered with
    picked,     \* row numbers the running search got from the store
    calls,      \* the external calls of the running call, in order
    console,    \* the console.error lines of the running call
    prevQ,      \* the last search answered since the last write
    embedOf,    \* the provider: the embedding it answers a text with
    mainPc,     \* position of the script's main function, "off" without it
    enabled,    \* enableVectorExtension has resolved in this process
    poolEnds,   \* number of calls of pool.end()
    monitor,    \* the uptime Monitor object, its timers and its requests
    signup,     \* the signup worker: request in hand, users table, Slack
    api         \* the prompts API: request in hand and the prompts table

vars == <<pc, doc, result, store, sections, idx, prompt, limit, embedding,
          picked, calls, console, prevQ, embedOf, mainPc, enabled, poolEnds,
          monitor, signup, api>>

\* the other applications of the repository
apps == <<monitor, signup, api>>

\* the other applications are not deployed
AppsOff ==
    /\ monitor = [deployed |-> FALSE]
    /\ signup = [deployed |-> FALSE]
    /\ api = [deployed |-> FALSE]

NoVector == <<>>

NoQuery == [valid |-> FALSE, prompt |-> <<>>, embedding |-> NoVector,
            limit |-> 0, rows |-> <<>>]

Call(fn, i, err) == [fn |-> fn, idx |-> i, error |-> err]

ingestLocals == <<doc, sections, idx>>
searchLocals == <<prompt, limit, picked>>
\* what no step of ingest or search changes
outside == <<embedOf, mainPc, enabled, poolEnds, apps>>

(***************************************************************************)
(* The chunker on its own: every document up to MaxDocLen.                 *)
(***************************************************************************)
InitChunk ==
    /\ pc = "chunk"
    /\ doc \in Texts(MaxDocLen)
    /\ result = NoResult
    /\ store = <<>>
    /\ sections = <<>>
    /\ idx = 0
    /\ prompt = <<>>
    /\ limit = 0
    /\ embedding = NoVector
    /\ picked = <<>>
    /\ calls = <<>>
    /\ console = <<>>
    /\ prevQ = NoQuery
    /\ embedOf = [t \in EmbedTexts |-> <<3, 4>>]
    /\ mainPc = "off"
    /\ enabled = FALSE
    /\ poolEnds = 0
    /\ AppsOff

Chunk ==
    /\ pc = "chunk"
    /\ result' = chunkMarkdownBySections(doc)
    /\ pc' = "chunked"
    /\ UNCHANGED <<doc, store, sections, idx, prompt, limit, embedding,
                   picked, calls, console, prevQ, outside>>

NextChunk == Chunk

SpecChunk == InitChunk /\ [][NextChunk]_vars

(***************************************************************************)
(* processMarkdownFile                                                     *)
(***************************************************************************)
Init ==
    /\ pc = "idle"
    /\ doc = <<>>
    /\ result = NoResult
    /\ store = <<>>
    /\ sections = <<>>
    /\ idx = 0
    /\ prompt = <<>>
    /\ limit = 0
    /\ embedding = NoVector
    /\ picked = <<>>
    /\ calls = <<>>
    /\ console = <<>>
    /\ prevQ = NoQuery
    /\ embedOf \in [EmbedTexts -> Vectors]
    /\ mainPc = "off"
    /\ enabled = FALSE
    /\ poolEnds = 0
    /\ AppsOff

\* the call, readFileSync and the chunker; a throw of the chunker is caught
\* by the catch of the function.  The callers of ingest and search have
\* enabled the extension first, as the script does.
ProcessStart(d) ==
    /\ pc = "idle"
    /\ enabled
    /\ LET chunked == chunkMarkdownBySections(d)
       IN  /\ doc' = d
           /\ calls' = <<>>
           /\ embedding' = NoVector
           /\ IF chunked.kind = "throw"
              THEN /\ sections' = <<>>
                   /\ idx' = 0
                   /\ console' = <<chunked.error>>
                   /\ result' = ProcessCatch(chunked.error)
                   /\ pc' = "processed"
              ELSE /\ sections' = chunked.value
                   /\ console' = <<>>
                   /\ IF Len(chunked.value) = 0
                      THEN /\ idx' = 0
                           /\ result' = Return(<<>>)
                           /\ pc' = "processed"
                      ELSE /\ idx' = 1
                           /\ result' = NoResult
                           /\ pc' = "embed"
    /\ UNCHANGED <<store, prevQ, searchLocals, outside>>

\* the section itself is stored, markup included
StoredText_raw(section) == section

\* the chunk_text of the INSERT: plainText, the text that was embedded
StoredText(section) == PlainText(section)

\* the sections are embedded one after the other before any is inserted
EmbedChunk_batch ==
    /\ pc = "embed"
    /\ embedding' = embedOf[PlainText(sections[idx])]
    /\ calls' = Append(calls, Call("embed", idx, "none"))
    /\ IF idx < Len(sections)
       THEN /\ idx' = idx + 1 /\ pc' = "embed"
       ELSE /\ idx' = idx /\ pc' = "insert"
    /\ UNCHANGED <<result, store, console, prevQ, doc, sections, searchLocals,
                   outside>>

\* await client.embeddings.create({input: plainText}) resolves with the
\* embedding of plainText
EmbedChunk ==
    /\ pc = "embed"
    /\ embedding' = embedOf[PlainText(sections[idx])]
    /\ calls' = Append(calls, Call("embed", idx, "none"))
    /\ pc' = "insert"
    /\ UNCHANGED <<result, store, console, prevQ, ingestLocals, searchLocals,
                   outside>>

\* the provider resolves with a malformed embedding: it is joined to a
\* string like any other and handed to the INSERT
EmbedChunkMalformed(m) ==
    /\ pc = "embed"
    /\ embedding' = m
    /\ calls' = Append(calls, Call("embed", idx, "none"))
    /\ pc' = "insert"
    /\ UNCHANGED <<result, store, console, prevQ, ingestLocals, searchLocals,
                   outside>>

\* the provider resolves without data: embedding.data[0].embedding throws a
\* TypeError, which the catch logs and rethrows
EmbedChunkNoData ==
    /\ pc = "embed"
    /\ calls' = Append(calls, Call("embed", idx, "none"))
    /\ console' = Append(console, "TypeError")
    /\ result' = ProcessCatch("TypeError")
    /\ pc' = "processed"
    /\ UNCHANGED <<store, embedding, prevQ, ingestLocals, searchLocals,
                   outside>>

\* a catch inside the loop: the failure is logged, the section is skipped
\* and the loop goes on
EmbedChunkFail_skip(e) ==
    /\ pc = "embed"
    /\ calls' = Append(calls, Call("embed", idx, e))
    /\ console' = Append(console, e)
    /\ IF idx < Len(sections)
       THEN /\ idx' = idx + 1
            /\ pc' = "embed"
            /\ UNCHANGED result
       ELSE /\ idx' = idx
            /\ pc' = "processed"
            /\ result' = Return(<<>>)
    /\ UNCHANGED <<store, embedding, prevQ, doc, sections, searchLocals,
                   outside>>

\* await client.embeddings.create rejects: the catch logs and rethrows
EmbedChunkFail(e) ==
    /\ pc = "embed"
    /\ calls' = Append(calls, Call("embed", idx, e))
    /\ console' = Append(console, e)
    /\ result' = ProcessCatch(e)
    /\ pc' = "processed"
    /\ UNCHANGED <<store, embedding, prevQ, ingestLocals, searchLocals,
                   outside>>

\* await pool.query('INSERT INTO markdown_chunks ...') resolves; the loop
\* goes on to the next section or ends
InsertChunk ==
    /\ pc = "insert"
    /\ Len(store) < MaxStore
    /\ InsertRow(store, StoredText(sections[idx]), embedding).kind = "return"
    /\ store' = InsertRow(store, StoredText(sections[idx]), embedding).value
    /\ calls' = Append(calls, Call("insert", idx, "none"))
    /\ prevQ' = NoQuery
    /\ embedding' = NoVector
    /\ IF idx < Len(sections)
       THEN /\ idx' = idx + 1
            /\ pc' = "embed"
            /\ UNCHANGED result
       ELSE /\ idx' = idx
            /\ pc' = "processed"
            /\ result' = Return(<<>>)
    /\ UNCHANGED <<doc, sections, console, searchLocals, outside>>

\* await pool.query('INSERT ...') rejects, for want of a connection or
\* because the database refuses the row: the catch logs and rethrows
InsertChunkFail(e) ==
    /\ pc = "insert"
    /\ InsertRow(store, StoredText(sections[idx]), embedding).kind = "throw"
           => e = InsertRow(store, StoredText(sections[idx]), embedding).error
                  \/ e = "ConnectionError"
    /\ calls' = Append(calls, Call("insert", idx, e))
    /\ console' = Append(console, e)
    /\ result' = ProcessCatch(e)
    /\ pc' = "processed"
    /\ UNCHANGED <<store, embedding, prevQ, ingestLocals, searchLocals,
                   outside>>

\* the caller has the outcome
ProcessReturn ==
    /\ pc = "processed"
    /\ pc' = "idle"
    /\ result' = NoResult
    /\ doc' = <<>>
    /\ sections' = <<>>
    /\ idx' = 0
    /\ embedding' = NoVector
    /\ calls' = <<>>
    /\ console' = <<>>
    /\ UNCHANGED <<store, prevQ, searchLocals, outside>>

(***************************************************************************)
(* performSimilaritySearch                                                 *)
(***************************************************************************)
\* a search that answers the empty prompt with the empty list, calling
\* neither the provider nor the store
SearchStart_skipEmpty(p, l) ==
    /\ pc = "idle"
    /\ enabled
    /\ prompt' = p
    /\ limit' = l
    /\ picked' = <<>>
    /\ calls' = <<>>
    /\ console' = <<>>
    /\ embedding' = NoVector
    /\ IF p = <<>>
       THEN result' = Return(<<>>) /\ pc' = "searched"
       ELSE result' = NoResult /\ pc' = "embedPrompt"
    /\ UNCHANGED <<store, prevQ, ingestLocals, outside>>

SearchStart(p, l) ==
    /\ pc = "idle"
    /\ enabled
    /\ prompt' = p
    /\ limit' = l
    /\ picked' = <<>>
    /\ calls' = <<>>
    /\ console' = <<>>
    /\ embedding' = NoVector
    /\ result' = NoResult
    /\ pc' = "embedPrompt"
    /\ UNCHANGED <<store, prevQ, ingestLocals, outside>>

\* a search that answers a repeated query from the previous answer
EmbedPrompt_cached ==
    /\ pc = "embedPrompt"
    /\ IF prevQ.valid /\ prevQ.prompt = prompt /\ prevQ.limit = limit
       THEN /\ result' = Return(prevQ.rows)
            /\ pc' = "searched"
            /\ UNCHANGED <<embedding, calls>>
       ELSE /\ embedding' = embedOf[prompt]
            /\ calls' = Append(calls, Call("embed", 0, "none"))
            /\ pc' = "query"
            /\ UNCHANGED result
    /\ UNCHANGED <<store, console, prevQ, ingestLocals, searchLocals, outside>>

\* await client.embeddings.create({input: prompt}) resolves with the
\* embedding of prompt
EmbedPrompt ==
    /\ pc = "embedPrompt"
    /\ embedding' = embedOf[prompt]
    /\ calls' = Append(calls, Call("embed", 0, "none"))
    /\ pc' = "query"
    /\ UNCHANGED <<result, store, console, prevQ, ingestLocals, searchLocals,
                   outside>>

\* the provider resolves with a malformed embedding: it is joined to a
\* string like any other and handed to the SELECT
EmbedPromptMalformed(m) ==
    /\ pc = "embedPrompt"
    /\ embedding' = m
    /\ calls' = Append(calls, Call("embed", 0, "none"))
    /\ pc' = "query"
    /\ UNCHANGED <<result, store, console, prevQ, ingestLocals, searchLocals,
                   outside>>

\* the provider resolves without data: promptEmbedding.data[0].embedding
\* throws a TypeError, which the catch logs and rethrows
EmbedPromptNoData ==
    /\ pc = "embedPrompt"
    /\ calls' = Append(calls, Call("embed", 0, "none"))
    /\ console' = Append(console, "TypeError")
    /\ result' = SearchCatch("TypeError")
    /\ pc' = "searched"
    /\ UNCHANGED <<store, embedding, prevQ, ingestLocals, searchLocals,
                   outside>>

\* await client.embeddings.create rejects
EmbedPromptFail(e) ==
    /\ pc = "embedPrompt"
    /\ calls' = Append(calls, Call("embed", 0, e))
    /\ console' = Append(console, e)
    /\ result' = SearchCatch(e)
    /\ pc' = "searched"
    /\ UNCHANGED <<store, embedding, prevQ, ingestLocals, searchLocals,
                   outside>>

\* await pool.query(SELECT ...) is answered by the database: with rows,
\* which are mapped and returned, or with its refusal of the statement
QueryStore ==
    /\ pc = "query"
    /\ \E outcome \in QueryOutcomes(store, embedding, limit) :
          IF outcome.kind = "throw"
          THEN /\ calls' = Append(calls, Call("query", 0, outcome.error))
               /\ console' = Append(console, outcome.error)
               /\ result' = SearchCatch(outcome.error)
               /\ picked' = <<>>
          ELSE /\ calls' = Append(calls, Call("query", 0, "none"))
               /\ console' = console
               /\ picked' = outcome.value
               /\ result' = Return(MapRows(store, embedding, outcome.value))
    /\ pc' = "searched"
    /\ UNCHANGED <<store, embedding, prevQ, prompt, limit, ingestLocals,
                   outside>>

\* await pool.query(SELECT ...) rejects for want of a connection
QueryStoreFail ==
    /\ pc = "query"
    /\ calls' = Append(calls, Call("query", 0, "ConnectionError"))
    /\ console' = Append(console, "ConnectionError")
    /\ result' = SearchCatch("ConnectionError")
    /\ pc' = "searched"
    /\ UNCHANGED <<store, embedding, prevQ, ingestLocals, searchLocals,
                   outside>>

\* the caller has the outcome
SearchReturn ==
    /\ pc = "searched"
    /\ pc' = "idle"
    /\ prevQ' = IF result.kind = "return"
                THEN [valid |-> TRUE, prompt |-> prompt,
                      embedding |-> embedding,
                      limit |-> limit, rows |-> result.value]
                ELSE prevQ
    /\ result' = NoResult
    /\ prompt' = <<>>
    /\ limit' = 0
    /\ picked' = <<>>
    /\ embedding' = NoVector
    /\ calls' = <<>>
    /\ console' = <<>>
    /\ UNCHANGED <<store, ingestLocals, outside>>

(***************************************************************************)
(* enableVectorExtension:                                                  *)
(* await pool.query('CREATE EXTENSION IF NOT EXISTS vector;')              *)
(***************************************************************************)
EnableStart ==
    /\ pc = "idle"
    /\ mainPc = "off"
    /\ pc' = "enabling"
    /\ result' = NoResult
    /\ calls' = <<>>
    /\ console' = <<>>
    /\ embedding' = NoVector
    /\ UNCHANGED <<store, prevQ, ingestLocals, searchLocals, outside>>

\* the statement is answered: the extension exists from now on
EnableResolve ==
    /\ pc = "enabling"
    /\ enabled' = TRUE
    /\ calls' = Append(calls, Call("extension", 0, "none"))
    /\ result' = Return(<<>>)
    /\ pc' = "extended"
    /\ UNCHANGED <<store, embedding, console, prevQ, ingestLocals,
                   searchLocals, embedOf, mainPc, poolEnds, apps>>

\* the statement is rejected; the function has no catch, the caller gets
\* the error
EnableReject(e) ==
    /\ pc = "enabling"
    /\ calls' = Append(calls, Call("extension", 0, e))
    /\ result' = Throw(e)
    /\ pc' = "extended"
    /\ UNCHANGED <<store, embedding, console, prevQ, ingestLocals,
                   searchLocals, outside>>

\* the caller has the outcome
EnableReturn ==
    /\ pc = "extended"
    /\ mainPc = "off"
    /\ pc' = "idle"
    /\ result' = NoResult
    /\ calls' = <<>>
    /\ UNCHANGED <<store, embedding, console, prevQ, ingestLocals,
                   searchLocals, outside>>

Next ==
    \/ EnableStart
    \/ EnableResolve
    \/ \E e \in StoreErrors : EnableReject(e)
    \/ EnableReturn
    \/ \E d \in Docs : ProcessStart(d)
    \/ EmbedChunk
    \/ \E m \in MalformedVectors : EmbedChunkMalformed(m)
    \/ EmbedChunkNoData
    \/ \E e \in EmbedErrors : EmbedChunkFail(e)
    \/ InsertChunk
    \/ \E e \in StoreErrors : InsertChunkFail(e)
    \/ ProcessReturn
    \/ \E p \in Prompts, l \in Limits : SearchStart(p, l)
    \/ EmbedPrompt
    \/ \E m \in MalformedVectors : EmbedPromptMalformed(m)
    \/ EmbedPromptNoData
    \/ \E e \in EmbedErrors : EmbedPromptFail(e)
    \/ QueryStore
    \/ QueryStoreFail
    \/ SearchReturn

Spec == Init /\ [][Next]_vars

(***************************************************************************)
(* The script: the anonymous async function of lines 325-337.              *)
(*   try { await enableVectorExtension();                                  *)
(*         await testSimilaritySearch("...") }                             *)
(*   catch (error) { console.error(...) }                                  *)
(*   finally { await pool.end() }                                          *)
(* processMarkdownFile is not called by it.  The table holds the rows of   *)
(* earlier ingests, each with the embedding of its text.                   *)
(***************************************************************************)
\* limit: number = 3
DefaultLimit == 3

\* the prompt of the script; any text that is not empty
MainPrompt == <<" ", "a", " ", "\n">>

\* the texts ingest stores for the documents of the model
StoredTexts == EmbedTexts \ {<<>>}

InitMain ==
    /\ pc = "idle"
    /\ mainPc = "start"
    /\ embedOf \in [EmbedTexts -> Vectors]
    /\ \E n \in 0..MaxStore : \E texts \in [1..n -> StoredTexts] :
           store = [i \in 1..n |-> [id |-> i, chunk_text |-> texts[i],
                                     embedding |-> embedOf[texts[i]]]]
    /\ doc = <<>>
    /\ result = NoResult
    /\ sections = <<>>
    /\ idx = 0
    /\ prompt = <<>>
    /\ limit = 0
    /\ embedding = NoVector
    /\ picked = <<>>
    /\ calls = <<>>
    /\ console = <<>>
    /\ prevQ = NoQuery
    /\ enabled = FALSE
    /\ poolEnds = 0
    /\ AppsOff

\* await enableVectorExtension() is called
MainEnable ==
    /\ mainPc = "start"
    /\ pc = "idle"
    /\ mainPc' = "enable"
    /\ pc' = "enabling"
    /\ UNCHANGED <<result, store, embedding, calls, console, prevQ,
                   ingestLocals, searchLocals, embedOf, enabled, poolEnds, apps>>

\* a script that goes on to the search whatever the outcome of enabling
MainAfterEnable_ignoreFailure ==
    /\ mainPc = "enable"
    /\ pc = "extended"
    /\ mainPc' = "search"
    /\ pc' = "embedPrompt"
    /\ prompt' = MainPrompt
    /\ limit' = DefaultLimit
    /\ result' = NoResult
    /\ UNCHANGED <<store, embedding, picked, calls, console, prevQ,
                   ingestLocals, embedOf, enabled, poolEnds, apps>>

\* a script whose pool.end() is the last statement of the try block
MainAfterEnable_endInTry ==
    /\ mainPc = "enable"
    /\ pc = "extended"
    /\ IF result.kind = "return"
       THEN /\ mainPc' = "search"
            /\ pc' = "embedPrompt"
            /\ prompt' = MainPrompt
            /\ limit' = DefaultLimit
            /\ result' = NoResult
            /\ UNCHANGED console
       ELSE /\ mainPc' = "exit"
            /\ pc' = "idle"
            /\ console' = Append(console, result.error)
            /\ UNCHANGED <<prompt, limit, result>>
    /\ UNCHANGED <<store, embedding, picked, calls, prevQ, ingestLocals,
                   embedOf, enabled, poolEnds, apps>>

\* enableVectorExtension has ended: when it returned, testSimilaritySearch
\* calls performSimilaritySearch(prompt) with the default limit; when it
\* threw, the catch of the script logs the error and the finally block is
\* next
MainAfterEnable ==
    /\ mainPc = "enable"
    /\ pc = "extended"
    /\ IF result.kind = "return"
       THEN /\ mainPc' = "search"
            /\ pc' = "embedPrompt"
            /\ prompt' = MainPrompt
            /\ limit' = DefaultLimit
            /\ result' = NoResult
            /\ UNCHANGED console
       ELSE /\ mainPc' = "finally"
            /\ pc' = "idle"
            /\ console' = Append(console, result.error)
            /\ UNCHANGED <<prompt, limit, result>>
    /\ UNCHANGED <<store, embedding, picked, calls, prevQ, ingestLocals,
                   embedOf, enabled, poolEnds, apps>>

\* performSimilaritySearch has ended: testSimilaritySearch prints the
\* results, or catches the error and logs it; it never throws
MainAfterSearch ==
    /\ mainPc = "search"
    /\ pc = "searched"
    /\ mainPc' = "finally"
    /\ pc' = "idle"
    /\ console' = IF result.kind = "throw"
                  THEN Append(console, result.error)
                  ELSE console
    /\ UNCHANGED <<result, store, embedding, calls, prevQ, ingestLocals,
                   searchLocals, embedOf, enabled, poolEnds, apps>>

\* finally { await pool.end() }
PoolEnd ==
    /\ mainPc = "finally"
    /\ pc = "idle"
    /\ poolEnds' = poolEnds + 1
    /\ calls' = Append(calls, Call("end", 0, "none"))
    /\ mainPc' = "exit"
    /\ UNCHANGED <<pc, result, store, embedding, console, prevQ, ingestLocals,
                   searchLocals, embedOf, enabled, apps>>

NextMain ==
    \/ MainEnable
    \/ EnableResolve
    \/ \E e \in StoreErrors : EnableReject(e)
    \/ MainAfterEnable
    \/ EmbedPrompt
    \/ \E m \in MalformedVectors : EmbedPromptMalformed(m)
    \/ EmbedPromptNoData
    \/ \E e \in EmbedErrors : EmbedPromptFail(e)
    \/ QueryStore
    \/ QueryStoreFail
    \/ MainAfterSearch
    \/ PoolEnd

SpecMain == InitMain /\ [][NextMain]_vars

\* every await of the script settles and the continuation is run
SpecMainFair == SpecMain /\ WF_vars(NextMain)

(***************************************************************************)
(* Properties of the chunker (SpecChunk).                                  *)
(***************************************************************************)
\* the section markers of a document: the 1-based positions at which a line
\* begins with the heading prefix "## "
MarkerPositions(s) ==
    {i \in 1..Len(s) :
        /\ (i = 1 \/ s[i - 1] = "\n")
        /\ i + 2 <= Len(s)
        /\ SubSeq(s, i, i + 2) = <<"#", "#", " ">>}

MarkerCount(s) == Cardinality(MarkerPositions(s))

Whitespace == {" ", "\n", "\t", "\r"}

IsBlank(s) == \A i \in 1..Len(s) : s[i] \in Whitespace

\* C5: a document with N >= 1 section markers is cut in exactly N non-empty
\* chunks when it starts with a marker, and in N+1 chunks when a preamble
\* precedes the first marker; every chunk after the preamble starts at a
\* marker.
C5_ChunkCount ==
    (pc = "chunked" /\ MarkerCount(doc) >= 1) =>
        /\ result.kind = "return"
        /\ \A k \in 1..Len(result.value) : Len(result.value[k]) > 0
        /\ IF 1 \in MarkerPositions(doc)
           THEN /\ Len(result.value) = MarkerCount(doc)
                /\ \A k \in 1..Len(result.value) :
                       StartsWithMarker(result.value[k])
           ELSE /\ Len(result.value) = MarkerCount(doc) + 1
                /\ \A k \in 2..Len(result.value) :
                       StartsWithMarker(result.value[k])

\* a document with a preamble and two markers has been cut in three chunks
C5_Witness ==
    /\ pc = "chunked"
    /\ MarkerCount(doc) = 2
    /\ 1 \notin MarkerPositions(doc)
    /\ result.kind = "return"
    /\ Len(result.value) = 3

\* C6: an empty or whitespace-only document is cut in zero chunks, an empty
\* sequence and not an error.
C6_BlankDocumentNoChunks ==
    (pc = "chunked" /\ IsBlank(doc)) => result = Return(<<>>)

\* C7: a non-empty document without section markers is cut in exactly one
\* chunk, the whole document.
C7_NoMarkerOneChunk ==
    (pc = "chunked" /\ MarkerCount(doc) = 0 /\ Len(doc) > 0) =>
        result = Return(<<doc>>)

\* a document holding "## " in the middle of a line only is one chunk
C7_Witness ==
    /\ pc = "chunked"
    /\ doc = <<"a", "#", "#", " ", "a">>
    /\ MarkerCount(doc) = 0
    /\ result.kind = "return"
    /\ Len(result.value) = 1

\* C8: the chunks returned, concatenated in order, are the document: no text
\* is dropped, the preamble before the first marker included; the only
\* document for which no chunks are returned is the one without any text.
C8_NoTextDropped ==
    pc = "chunked" =>
        /\ result.kind = "return" => Concat(result.value) = doc
        /\ result.kind # "return" => doc = <<>>

\* a document with a preamble has been cut and the preamble is the first chunk
C8_Witness ==
    /\ pc = "chunked"
    /\ doc = <<"a", "\n", "#", "#", " ", "a">>
    /\ result.kind = "return"
    /\ result.value[1] = <<"a", "\n">>

(***************************************************************************)
(* Properties of ingest and search (Spec).                                 *)
(***************************************************************************)
FailedCalls == {j \in DOMAIN calls : calls[j].error # "none"}

\* the sections of the running ingest for which the provider was called
EmbeddedSections == {calls[j].idx : j \in {k \in DOMAIN calls : calls[k].fn = "embed"}}

\* C1 as stated: when the embed or the insert of one chunk fails, the chunk
\* is skipped, every remaining chunk is still embedded and ingest reports
\* success.
C1_IngestSkipsFailedChunk ==
    (pc = "processed" /\ FailedCalls # {}) =>
        /\ result.kind = "return"
        /\ \A i \in 1..Len(sections) : i \in EmbeddedSections

\* C1 as amended: when the embed or the insert of one chunk fails, the
\* failure is logged once and thrown to the caller of ingest; it is the last
\* external call of the ingest, so no later chunk is embedded or inserted;
\* the rows inserted for the chunks before it are kept.
C1_IngestAbortsOnFailure ==
    pc = "processed" =>
        \A j \in FailedCalls :
            /\ j = Len(calls)
            /\ result = Throw(calls[j].error)
            /\ console = <<calls[j].error>>
            /\ \A i \in 1..Len(sections) :
                   i \in EmbeddedSections <=> i <= calls[j].idx
            /\ LET k == calls[j].idx - 1
               IN  /\ Len(store) >= k
                   /\ \A i \in 1..k :
                          store[Len(store) - k + i].chunk_text
                              = PlainText(sections[i])

\* the embed of the second of three chunks has failed: the first chunk is
\* stored, the third was never embedded
C1_Witness ==
    /\ pc = "processed"
    /\ Len(sections) = 3
    /\ Len(calls) = 3
    /\ calls[3].fn = "embed" /\ calls[3].idx = 2 /\ calls[3].error # "none"
    /\ Len(store) >= 1
    /\ result.kind = "throw"

\* C2: a query with a positive limit that returns, returns at most limit
\* results and at least min(limit, number of stored records); the database
\* never refuses a positive limit, however few records it holds.
C2_ResultCount ==
    (pc = "searched" /\ limit > 0) =>
        /\ result.kind = "return" =>
               /\ Len(result.value) <= limit
               /\ Len(result.value) >= Min(limit, Len(store))
        /\ (result.kind = "throw" /\ WellFormed(embedding)) =>
               result.error = "ConnectionError"

\* limit 3 against a store of one record has returned one result
C2_Witness ==
    /\ pc = "searched"
    /\ limit = 3
    /\ Len(store) = 1
    /\ result.kind = "return"
    /\ Len(result.value) = 1

\* C3: the results of a query are in order of non-increasing similarity,
\* each result carries the similarity of the record it was read from, and no
\* record left out is strictly closer to the query vector than a returned
\* one.
C3_OrderedBySimilarity ==
    (pc = "searched" /\ result.kind = "return") =>
        /\ Len(picked) = Len(result.value)
        /\ \A i \in 1..Len(picked) :
               /\ result.value[i].text = store[picked[i]].chunk_text
               /\ result.value[i].similarity
                      = Similarity(store[picked[i]].embedding, embedding)
        /\ \A i \in 1..(Len(result.value) - 1) :
               result.value[i].similarity >= result.value[i + 1].similarity
        /\ \A r \in 1..Len(store) :
               (\A i \in 1..Len(picked) : picked[i] # r) =>
                   \A i \in 1..Len(picked) :
                       CosineDistance(store[r].embedding, embedding)
                           >= CosineDistance(store[picked[i]].embedding, embedding)

\* limit 1 against two records at different distances: the closer is returned
C3_Witness ==
    /\ pc = "searched"
    /\ result.kind = "return"
    /\ Len(store) = 2
    /\ Len(picked) = 1
    /\ \E r \in 1..2 :
           CosineDistance(store[r].embedding, embedding)
               > CosineDistance(store[picked[1]].embedding, embedding)

\* C4 as stated: a query whose limit is 0 or negative fails with
\* InvalidArgument and returns no result sequence (stated for the searches
\* in which no external call has failed).
C4_NonPositiveLimitInvalidArgument ==
    (pc = "searched" /\ limit <= 0 /\ FailedCalls = {}) =>
        result = Throw("InvalidArgument")

\* C4 as amended: a query whose limit is negative never returns a result
\* sequence: no argument is checked, the prompt is embedded, and the
\* database's refusal of the statement (or an earlier failure of the embed
\* call) is thrown; a query whose limit is 0 is accepted and, when it
\* returns, returns the empty sequence.
C4_NonPositiveLimit ==
    (pc = "searched" /\ limit <= 0) =>
        /\ Len(calls) >= 1 /\ calls[1].fn = "embed"
        /\ result.kind \in {"return", "throw"}
        /\ limit < 0 =>
               /\ result.kind = "throw"
               /\ result.error \in EmbedErrors \cup StoreErrors \cup {"TypeError"}
        /\ (limit = 0 /\ result.kind = "return") => result.value = <<>>

\* a negative limit has been refused by the database after the embed call
C4_Witness ==
    /\ pc = "searched"
    /\ limit < 0
    /\ Len(store) >= 1
    /\ Len(calls) = 2
    /\ calls[2].fn = "query"
    /\ result = Throw("DatabaseError")

\* C9: when the embed call or the store query of a search fails, the search
\* throws that same error and returns no result sequence; nothing is called
\* after the failure.
C9_SearchErrorPropagates ==
    pc = "searched" =>
        \A j \in FailedCalls :
            /\ j = Len(calls)
            /\ result = Throw(calls[j].error)
            /\ console = <<calls[j].error>>

\* the store query has failed after a successful embed
C9_Witness ==
    /\ pc = "searched"
    /\ Len(calls) = 2
    /\ calls[1].error = "none"
    /\ calls[2].fn = "query" /\ calls[2].error = "ConnectionError"
    /\ Len(store) >= 1
    /\ result.kind = "throw"

\* the running search repeats the previous one: same vector, same limit and
\* no write in between
RepeatsPrevious ==
    /\ pc = "searched"
    /\ result.kind = "return"
    /\ prevQ.valid
    /\ WellFormed(embedding)
    /\ prevQ.embedding = embedding
    /\ prevQ.limit = limit

\* two stored records are at the same distance of the query vector
HasTie ==
    \E r1, r2 \in 1..Len(store) :
        /\ r1 # r2
        /\ CosineDistance(store[r1].embedding, embedding)
               = CosineDistance(store[r2].embedding, embedding)

\* C10 as stated: a repeated query returns the same ordered sequence, and
\* records at equal distance are returned in insertion order.
C10_RepeatedQuerySameSequence ==
    RepeatsPrevious =>
        /\ result.value = prevQ.rows
        /\ \A i, j \in 1..Len(picked) :
               (i < j /\ CosineDistance(store[picked[i]].embedding, embedding)
                           = CosineDistance(store[picked[j]].embedding, embedding))
                   => picked[i] < picked[j]

\* C10 as amended: a repeated query returns the same sequence of similarity
\* scores, and the same ordered sequence of results when no two stored
\* records are at equal distance of the query vector; the query names no
\* tie-breaker, so records at equal distance may come in another order.
C10_RepeatedQuerySameScores ==
    RepeatsPrevious =>
        /\ Len(result.value) = Len(prevQ.rows)
        /\ \A i \in 1..Len(result.value) :
               result.value[i].similarity = prevQ.rows[i].similarity
        /\ ~HasTie => result.value = prevQ.rows

\* a repeated query over two records at equal distance has returned them in
\* another order than before
C10_Witness ==
    /\ RepeatsPrevious
    /\ HasTie
    /\ Len(result.value) = 2
    /\ result.value # prevQ.rows

(***************************************************************************)
(* Round trip, malformed answers of the provider, the empty prompt (Spec). *)
(***************************************************************************)
\* the running search has returned, with a limit of at least 1, for a prompt
\* that is the text of a stored record
RoundTrip ==
    /\ pc = "searched"
    /\ result.kind = "return"
    /\ limit >= 1
    /\ \E r \in 1..Len(store) : store[r].chunk_text = prompt

\* C11 as stated: a query whose prompt is the text of an ingested chunk
\* returns that chunk as the first result, with similarity 1, whatever
\* other records the store holds.
C11_RoundTripFirst ==
    RoundTrip =>
        /\ Len(result.value) >= 1
        /\ result.value[1].text = prompt
        /\ result.value[1].similarity = SimScale

\* C11 as amended: with a provider that answers a text with the same
\* embedding each time, such a query returns a first result of similarity
\* 1; it is that chunk, unless a stored record with another text has an
\* embedding at distance 0 of the chunk's, which may then come first.
C11_RoundTripSimilarity ==
    RoundTrip =>
        /\ Len(result.value) >= 1
        /\ result.value[1].similarity = SimScale
        /\ result.value[1].text # prompt =>
               \E r \in 1..Len(store) :
                   /\ store[r].chunk_text = result.value[1].text
                   /\ CosineDistance(store[r].embedding, embedOf[prompt]) = 0

\* the chunk inserted last is found first, before a record that is farther
C11_Witness ==
    /\ RoundTrip
    /\ Len(store) = 2
    /\ store[2].chunk_text = prompt
    /\ CosineDistance(store[1].embedding, embedding) > 0
    /\ result.value[1].text = prompt
    /\ result.value[1].similarity = SimScale

\* the running call, ingest or search, has ended
CallEnded == pc \in {"processed", "searched"}

LastCall == calls[Len(calls)]

\* the provider rejected the last embed call
EmbedRejected ==
    /\ calls # <<>>
    /\ LastCall.fn = "embed"
    /\ LastCall.error # "none"

\* the provider resolved the last embed call without an embedding
EmbedNoData ==
    /\ calls # <<>>
    /\ LastCall.fn = "embed"
    /\ LastCall.error = "none"
    /\ result = Throw("TypeError")

\* the provider resolved the last embed call with a malformed embedding
EmbedMalformed == embedding \in MalformedVectors

C13_EmptyPromptInvalidArgument ==
    (pc = "searched" /\ prompt = <<>> /\ FailedCalls = {}) =>
        result = Throw("InvalidArgument")

\* C13 as amended: the prompt is not checked: an empty prompt is sent to
\* the provider like any other, the search fails only with an error of the
\* provider or of the store (or the TypeError of a response without
\* embedding), and when the provider answers with an embedding and the
\* store with rows, the ranked results are returned.
C13_EmptyPromptEmbedded ==
    (pc = "searched" /\ prompt = <<>>) =>
        /\ Len(calls) >= 1 /\ calls[1].fn = "embed"
        /\ result.kind = "throw" =>
               result.error \in EmbedErrors \cup StoreErrors \cup {"TypeError"}
        /\ (FailedCalls = {} /\ WellFormed(embedding) /\ limit >= 0) =>
               /\ result.kind = "return"
               /\ Len(result.value) = Min(limit, Len(store))

\* a search with the empty prompt has returned a result
C13_Witness ==
    /\ pc = "searched"
    /\ prompt = <<>>
    /\ result.kind = "return"
    /\ Len(result.value) >= 1

(***************************************************************************)
(* The external calls of an ingest and of a search (Spec).                 *)
(***************************************************************************)
\* the calls made so far are embed(1), insert(1), embed(2), insert(2), ...
\* in this order, each made after the one before it has succeeded
IngestInOrder ==
    \A j \in DOMAIN calls :
        /\ calls[j].fn = (IF j % 2 = 1 THEN "embed" ELSE "insert")
        /\ calls[j].idx = (j + 1) \div 2
        /\ calls[j].idx \in 1..Len(sections)
        /\ j < Len(calls) => calls[j].error = "none"

Ingesting == pc \in {"embed", "insert", "processed"}

\* the embed calls made for chunk i
EmbedCallsOf(i) ==
    {j \in DOMAIN calls : calls[j].fn = "embed" /\ calls[j].idx = i}

\* C14 as stated: an ingest makes exactly one embed call per chunk, in
\* document order, each followed by the insert of that chunk before the
\* next chunk's embed call.
C14_OneEmbedPerChunk ==
    Ingesting =>
        /\ IngestInOrder
        /\ pc = "processed" =>
               \A i \in 1..Len(sections) : Cardinality(EmbedCallsOf(i)) = 1

\* C14 as amended: an ingest makes at most one embed call per chunk, in
\* document order, each made only after the chunk before it has been
\* inserted; an ingest that returns has made exactly one embed call and one
\* insert for each chunk; an ingest that throws has made no call for the
\* chunks after the failed one.
C14_EmbedInsertInterleaved ==
    Ingesting =>
        /\ IngestInOrder
        /\ \A i \in 1..Len(sections) : Cardinality(EmbedCallsOf(i)) <= 1
        /\ (pc = "processed" /\ result.kind = "return") =>
               /\ Len(calls) = 2 * Len(sections)
               /\ \A j \in DOMAIN calls : calls[j].error = "none"
        /\ (pc = "processed" /\ result.kind = "throw" /\ calls # <<>>) =>
               \A i \in 1..Len(sections) :
                   i > LastCall.idx => EmbedCallsOf(i) = {}

\* an ingest of several chunks has returned
C14_Witness ==
    /\ pc = "processed"
    /\ result.kind = "return"
    /\ Len(sections) >= 2
    /\ Len(calls) = 2 * Len(sections)

\* the running search asks what the search before it asked, of the same
\* table
SameQueryAgain ==
    /\ prevQ.valid
    /\ prevQ.prompt = prompt
    /\ prevQ.limit = limit

\* C16: a search makes one embed call and then, when it succeeded, one
\* query of the store; neither is retried, and a search that repeats the
\* search before it makes both calls again.
C16_OneEmbedOneQuery ==
    /\ pc = "embedPrompt" => calls = <<>>
    /\ pc = "query" => calls = <<Call("embed", 0, "none")>>
    /\ pc = "searched" =>
        /\ Len(calls) \in 1..2
        /\ calls[1].fn = "embed"
        /\ Len(calls) = 2 =>
               /\ calls[1].error = "none"
               /\ calls[2].fn = "query"
        /\ result.kind = "return" => Len(calls) = 2
        /\ result.kind = "throw" => LastCall.error # "none"
                                      \/ result.error = "TypeError"

\* a search has returned that repeats the search before it
C16_Witness ==
    /\ pc = "searched"
    /\ SameQueryAgain
    /\ result.kind = "return"
    /\ Len(result.value) >= 1
    /\ Len(calls) = 2

(***************************************************************************)
(* The rows of the store (Spec).                                           *)
(***************************************************************************)
\* C18: every stored embedding has the dimensionality of the column; an
\* INSERT of an embedding of another dimensionality fails with an error of
\* the store and writes nothing.
C18_SameDimensionality ==
    /\ [](\A r \in 1..Len(store) : Len(store[r].embedding) = Dimensions)
    /\ [][(pc = "insert" /\ Len(embedding) # Dimensions) =>
              /\ store' = store
              /\ pc' = "processed"
              /\ result'.kind = "throw"
              /\ result'.error \in StoreErrors]_vars

\* the INSERT of an embedding of one component has been refused
C18_Witness ==
    /\ pc = "processed"
    /\ calls # <<>>
    /\ Len(embedding) # Dimensions
    /\ Numeric(embedding)
    /\ LastCall.fn = "insert"
    /\ result.kind = "throw"
    /\ result.error \in StoreErrors
    /\ Len(store) >= 1

\* C19: no step removes or changes a stored record: an ingest appends, and
\* a search and the enabling of the extension leave the store as it is.
C19_AppendOnly ==
    [][/\ Len(store') >= Len(store)
       /\ SubSeq(store', 1, Len(store)) = store
       /\ pc \in {"embedPrompt", "query", "searched", "enabling", "extended"}
              => store' = store
       /\ pc' \in {"embedPrompt", "enabling"} => store' = store]_vars

\* a second record has been appended and a search has run after it
C19_Witness ==
    /\ Len(store) = 2
    /\ store[1].chunk_text # store[2].chunk_text
    /\ pc = "searched"
    /\ result.kind = "return"

\* the inserts of the running ingest that succeeded
InsertsDone == {j \in DOMAIN calls : calls[j] = Call("insert", calls[j].idx, "none")}

\* C20: a stored record holds the rendered plain text of one chunk and the
\* embedding that the provider computed for that text: the records written
\* by an ingest are, in order, those of its chunks.
C20_TextEmbeddingPaired ==
    /\ \A r \in 1..Len(store) :
           /\ store[r].chunk_text \in DOMAIN embedOf
           /\ store[r].embedding = embedOf[store[r].chunk_text]
    /\ Ingesting =>
           LET k == Cardinality(InsertsDone)
           IN  /\ k <= Len(store)
               /\ \A i \in 1..k :
                      /\ store[Len(store) - k + i].chunk_text
                             = PlainText(sections[i])
                      /\ store[Len(store) - k + i].embedding
                             = embedOf[PlainText(sections[i])]

\* an ingest of two chunks with markup has stored two records with
\* different texts and different embeddings
C20_Witness ==
    /\ pc = "processed"
    /\ result.kind = "return"
    /\ Len(sections) = 2
    /\ sections[1] # PlainText(sections[1])
    /\ Len(store) = 2
    /\ store[1].chunk_text # store[2].chunk_text
    /\ store[1].embedding # store[2].embedding

(***************************************************************************)
(* The script (SpecMain, SpecMainFair).                                    *)
(***************************************************************************)
\* C15: the script ends the connection pool exactly once before it exits,
\* whether the enabling of the extension and the search succeeded or
\* failed, and after every call that uses the pool.
C15_PoolReleased ==
    /\ <>(mainPc = "exit")
    /\ [](poolEnds <= 1)
    /\ [](mainPc = "exit" <=> poolEnds = 1)
    /\ [](poolEnds = 1 => pc = "idle" /\ calls[Len(calls)].fn = "end")

\* the pool has been ended after the enabling of the extension failed
C15_Witness ==
    /\ mainPc = "exit"
    /\ poolEnds = 1
    /\ calls # <<>>
    /\ calls[1].fn = "extension"
    /\ calls[1].error # "none"

\* a statement has been sent to the table of the vectors
StoreCallIssued ==
    \/ pc \in {"query", "insert"}
    \/ \E j \in DOMAIN calls : calls[j].fn \in {"query", "insert"}

\* C17: the script enables the vector extension before any statement that
\* uses the vector type: when the enabling fails, no search is started.
C17_ExtensionFirst ==
    /\ StoreCallIssued => enabled
    /\ mainPc \in {"search"} => enabled
    /\ (mainPc \in {"finally", "exit"} /\ ~enabled) =>
           /\ ~StoreCallIssued
           /\ \A j \in DOMAIN calls : calls[j].fn \in {"extension", "end"}

\* the script has queried the table after enabling the extension
C17_Witness ==
    /\ enabled
    /\ mainPc = "exit"
    /\ \E j \in DOMAIN calls : calls[j].fn = "query"

(***************************************************************************)
(* The uptime Monitor: a Durable Object whose fetch handler schedules the  *)
(* periodic check of a website (SpecMonitor).  Calls of fetch interleave   *)
(* at their awaits.                                                        *)
(***************************************************************************)
MaxRequests == 2
MaxChecks == 2
MaxParamLen == 2

gooseVars == <<pc, doc, result, store, sections, idx, prompt, limit,
               embedding, picked, calls, console, prevQ, embedOf, mainPc,
               enabled, poolEnds>>

\* the script of the vector search is not running
GooseOff ==
    /\ pc = "idle"
    /\ doc = <<>>
    /\ result = NoResult
    /\ store = <<>>
    /\ sections = <<>>
    /\ idx = 0
    /\ prompt = <<>>
    /\ limit = 0
    /\ embedding = NoVector
    /\ picked = <<>>
    /\ calls = <<>>
    /\ console = <<>>
    /\ prevQ = NoQuery
    /\ embedOf = [t \in EmbedTexts |-> <<3, 4>>]
    /\ mainPc = "off"
    /\ enabled = FALSE
    /\ poolEnds = 0

Digits == <<"0", "1", "2", "3", "4", "5", "6", "7", "8", "9">>

IsDigit(c) == \E d \in DOMAIN Digits : Digits[d] = c

DigitValue(c) == (CHOOSE d \in DOMAIN Digits : Digits[d] = c) - 1

\* the value of a string of digits, read in base 10
RECURSIVE Decimal(_)
Decimal(s) ==
    IF s = <<>> THEN 0
    ELSE 10 * Decimal(SubSeq(s, 1, Len(s) - 1)) + DigitValue(s[Len(s)])

\* the longest prefix of s that consists of digits
RECURSIVE DigitPrefix(_)
DigitPrefix(s) ==
    IF s = <<>> \/ ~IsDigit(s[1]) THEN <<>>
    ELSE <<s[1]>> \o DigitPrefix(Tail(s))

\* parseInt(s): the number its leading digits spell, NaN without any
parseInt(s) ==
    IF DigitPrefix(s) = <<>> THEN NotANumber ELSE Decimal(DigitPrefix(s))

\* the texts of at most n characters over an alphabet
TextsOver(alphabet, n) == UNION {[1..k -> alphabet] : k \in 0..n}

\* url.searchParams.get('websiteId'): null without the parameter
WebsiteParams ==
    {[present |-> FALSE, text |-> <<>>]}
        \cup {[present |-> TRUE, text |-> t] :
                  t \in TextsOver({"1", "2", "x"}, MaxParamLen)}

Paths == {"/schedule", "/status"}

\* the ids of the rows of the websites table
Websites == {1, 2}

NoTimer == 0

InitMonitor ==
    /\ GooseOff
    /\ signup = [deployed |-> FALSE]
    /\ api = [deployed |-> FALSE]
    /\ monitor = [deployed |-> TRUE,
                  checkTimer |-> NoTimer,
                  timers |-> <<>>,
                  requests |-> <<>>,
                  checks |-> 0]

\* clearInterval(timer)
clearInterval(timers, t) ==
    [u \in DOMAIN timers |->
        IF u = t THEN [timers[u] EXCEPT !.active = FALSE] ELSE timers[u]]

\* setInterval(callback, website.checkInterval * 1000): one more timer
setInterval(timers, website) ==
    Append(timers, [website |-> website, active |-> TRUE])

\* a request arrives: fetch runs to its first await, the lookup of the
\* website in scheduleChecks, or answers at once
Fetch(path, param) ==
    /\ monitor.deployed
    /\ Len(monitor.requests) < MaxRequests
    /\ IF path # "/schedule"
       THEN monitor' = [monitor EXCEPT !.requests =
                Append(@, [pc |-> "done", websiteId |-> 0, status |-> 404])]
       ELSE IF ~param.present \/ param.text = <<>>
       THEN monitor' = [monitor EXCEPT !.requests =
                Append(@, [pc |-> "done", websiteId |-> 0, status |-> 400])]
       ELSE monitor' = [monitor EXCEPT
                !.timers = IF monitor.checkTimer # NoTimer
                           THEN clearInterval(@, monitor.checkTimer)
                           ELSE @,
                !.requests = Append(@, [pc |-> "lookup",
                                        websiteId |-> parseInt(param.text),
                                        status |-> 0])]
    /\ UNCHANGED <<gooseVars, signup, api>>

\* the lookup resolves with the website: the timer is started and kept in
\* checkTimer, and the first check is awaited
LookupFound(r) ==
    /\ monitor.deployed
    /\ r \in DOMAIN monitor.requests
    /\ monitor.requests[r].pc = "lookup"
    /\ monitor.requests[r].websiteId \in Websites
    /\ monitor' = [monitor EXCEPT
           !.timers = setInterval(@, monitor.requests[r].websiteId),
           !.checkTimer = Len(monitor.timers) + 1,
           !.requests[r].pc = "check"]
    /\ UNCHANGED <<gooseVars, signup, api>>

\* the lookup resolves without a row: scheduleChecks logs and returns, and
\* fetch answers 'Monitoring scheduled'
LookupMissing(r) ==
    /\ monitor.deployed
    /\ r \in DOMAIN monitor.requests
    /\ monitor.requests[r].pc = "lookup"
    /\ monitor.requests[r].websiteId \notin Websites
    /\ monitor' = [monitor EXCEPT !.requests[r].pc = "done",
                                  !.requests[r].status = 200]
    /\ UNCHANGED <<gooseVars, signup, api>>

\* the lookup rejects: scheduleChecks and fetch reject with it
LookupReject(r) ==
    /\ monitor.deployed
    /\ r \in DOMAIN monitor.requests
    /\ monitor.requests[r].pc = "lookup"
    /\ monitor' = [monitor EXCEPT !.requests[r].pc = "done",
                                  !.requests[r].status = 500]
    /\ UNCHANGED <<gooseVars, signup, api>>

\* the checks recorded after one more performCheck that stored its row
Checked(n) == IF n < MaxChecks THEN n + 1 ELSE n

\* the first check of scheduleChecks settles, its row stored or its error
\* logged, and fetch answers 'Monitoring scheduled'
CheckSettle(r, stored) ==
    /\ monitor.deployed
    /\ r \in DOMAIN monitor.requests
    /\ monitor.requests[r].pc = "check"
    /\ monitor' = [monitor EXCEPT
           !.requests[r].pc = "done",
           !.requests[r].status = 200,
           !.checks = IF stored THEN Checked(@) ELSE @]
    /\ UNCHANGED <<gooseVars, signup, api>>

\* a timer that has not been cleared fires and its check stores a row
TimerFire(t) ==
    /\ monitor.deployed
    /\ t \in DOMAIN monitor.timers
    /\ monitor.timers[t].active
    /\ monitor.checks < MaxChecks
    /\ monitor' = [monitor EXCEPT !.checks = Checked(@)]
    /\ UNCHANGED <<gooseVars, signup, api>>

NextMonitor ==
    \/ \E path \in Paths, param \in WebsiteParams : Fetch(path, param)
    \/ \E r \in 1..MaxRequests : LookupFound(r)
    \/ \E r \in 1..MaxRequests : LookupMissing(r)
    \/ \E r \in 1..MaxRequests : LookupReject(r)
    \/ \E r \in 1..MaxRequests, stored \in BOOLEAN : CheckSettle(r, stored)
    \/ \E t \in 1..MaxRequests : TimerFire(t)

SpecMonitor == InitMonitor /\ [][NextMonitor]_vars

\* the timers that were started and have not been cleared
ActiveTimers ==
    {t \in DOMAIN monitor.timers : monitor.timers[t].active}

\* C21: the Monitor has at most one active timer, and it is the one that
\* checkTimer refers to: every other timer that was started has been
\* cleared, also when the handling of two /schedule requests overlaps.
C21_AtMostOneTimer ==
    monitor.deployed =>
        /\ Cardinality(ActiveTimers) <= 1
        /\ \A t \in ActiveTimers : t = monitor.checkTimer

(***************************************************************************)
(* The signup worker: POST /api/signup behind authenticationMiddleware and *)
(* validateInputMiddleware (SpecSignup).                                   *)
(***************************************************************************)
MaxSignups == 2

\* s.startsWith(p)
StartsWith(s, p) == Len(s) >= Len(p) /\ SubSeq(s, 1, Len(p)) = p

\* s.split(sep) for a separator of one character
RECURSIVE SplitAt(_, _)
SplitAt(s, sep) ==
    IF \A i \in DOMAIN s : s[i] # sep THEN <<s>>
    ELSE LET i == CHOOSE k \in DOMAIN s :
                      s[k] = sep /\ \A j \in 1..(k - 1) : s[j] # sep
         IN  <<SubSeq(s, 1, i - 1)>> \o SplitAt(SubSeq(s, i + 1, Len(s)), sep)

\* the characters of base64, by value
Base64Alphabet ==
    <<"A", "B", "C", "D", "E", "F", "G", "H", "I", "J", "K", "L", "M",
       "N", "O", "P", "Q", "R", "S", "T", "U", "V", "W", "X", "Y", "Z",
       "a", "b", "c", "d", "e", "f", "g", "h", "i", "j", "k", "l", "m",
       "n", "o", "p", "q", "r", "s", "t", "u", "v", "w", "x", "y", "z",
       "0", "1", "2", "3", "4", "5", "6", "7", "8", "9", "+", "/">>

IsBase64(c) == \E k \in DOMAIN Base64Alphabet : Base64Alphabet[k] = c

Base64Index(c) ==
    (CHOOSE k \in DOMAIN Base64Alphabet : Base64Alphabet[k] = c) - 1

\* the 6-bit values of the characters before the padding
RECURSIVE Sextets(_)
Sextets(s) ==
    IF s = <<>> \/ s[1] = "=" THEN <<>>
    ELSE IF IsBase64(s[1]) THEN <<Base64Index(s[1])>> \o Sextets(Tail(s))
    ELSE Sextets(Tail(s))

\* four 6-bit values are three bytes; three are two bytes, two are one
RECURSIVE SextetsToBytes(_)
SextetsToBytes(x) ==
    IF Len(x) >= 4
    THEN LET n == x[1] * 262144 + x[2] * 4096 + x[3] * 64 + x[4]
         IN  <<n \div 65536, (n \div 256) % 256, n % 256>>
                 \o SextetsToBytes(SubSeq(x, 5, Len(x)))
    ELSE IF Len(x) = 3
    THEN LET n == x[1] * 4096 + x[2] * 64 + x[3]
         IN  <<n \div 1024, (n \div 4) % 256>>
    ELSE IF Len(x) = 2
    THEN <<(x[1] * 64 + x[2]) \div 16>>
    ELSE <<>>

\* Buffer.from(s, "base64")
base64Decode(s) == SextetsToBytes(Sextets(s))

\* the ASCII codes of the characters of the credentials
AsciiCodes == {<<":", 58>>, <<"p", 112>>, <<"q", 113>>, <<"u", 117>>,
               <<"v", 118>>, <<"x", 120>>}

CharOfCode(b) ==
    IF \E a \in AsciiCodes : a[2] = b
    THEN (CHOOSE a \in AsciiCodes : a[2] = b)[1]
    ELSE "?"

CodeOfChar(c) == (CHOOSE a \in AsciiCodes : a[1] = c)[2]

\* buffer.toString("ascii"): the highest bit of each byte is unset
toStringAscii(bytes) == [i \in DOMAIN bytes |-> CharOfCode(bytes[i] % 128)]

BytesOf(text) == [i \in DOMAIN text |-> CodeOfChar(text[i])]

Undefined == [defined |-> FALSE, text |-> <<>>]

Defined(t) == [defined |-> TRUE, text |-> t]

\* const [username, password] = credentials.split(":")
Destructure(parts, k) ==
    IF k <= Len(parts) THEN Defined(parts[k]) ELSE Undefined

BasicPrefix == <<"B", "a", "s", "i", "c", " ">>

\* authenticationMiddleware: TRUE when next() is called, FALSE when the
\* answer is 401
authenticationMiddleware(authHeader, env) ==
    IF ~authHeader.defined \/ ~StartsWith(authHeader.text, BasicPrefix)
    THEN FALSE
    ELSE LET base64Credentials == SplitAt(authHeader.text, " ")[2]
             credentials == toStringAscii(base64Decode(base64Credentials))
             username == Destructure(SplitAt(credentials, ":"), 1)
             password == Destructure(SplitAt(credentials, ":"), 2)
         IN  ~(username # env.USER \/ password # env.PASSWORD)

\* the value of the X-Custom-Auth header: "Basic " and a token
Basic(token) == Defined(BasicPrefix \o token)

AuthHeaders ==
    { Undefined,
      Defined(<<"B", "e", "a", "r", "e", "r", " ", "d", "T", "p", "w">>),
      Defined(<<"b", "a", "s", "i", "c", " ", "d", "T", "p", "w">>),
      Basic(<<>>),
      Basic(<<"d", "T", "p", "w">>),
      Basic(<<"d", "T", "p", "x">>),
      Basic(<<"d", "j", "p", "w">>),
      Basic(<<"d", "Q", "=", "=">>),
      Basic(<<"d", "T", "p", "w", "O", "n", "g", "=">>),
      Basic(<<"9", "T", "p", "w">>),
      Basic(<<"d", "T", "p", "w", " ", "x">>),
      Basic(<<" ", "d", "T", "p", "w">>) }

\* c.env.USER and c.env.PASSWORD
Envs == { [USER |-> Defined(<<"u">>), PASSWORD |-> Defined(<<"p">>)],
          [USER |-> Defined(<<"u">>), PASSWORD |-> Defined(<<"q">>)] }

\* the values of a field of the JSON body
FieldValues == { [type |-> "undefined", text |-> <<>>],
                 [type |-> "number", text |-> <<>>],
                 [type |-> "string", text |-> <<"a">>] }

\* the bodies of the requests: text that is no JSON, or an object
Bodies ==
    {[json |-> FALSE, name |-> [type |-> "undefined", text |-> <<>>],
      email |-> [type |-> "undefined", text |-> <<>>],
      githubHandle |-> [type |-> "undefined", text |-> <<>>]]}
        \cup {[json |-> TRUE, name |-> n, email |-> e, githubHandle |-> g] :
                  n \in FieldValues \cup {[type |-> "string", text |-> <<"b">>]},
                  e \in FieldValues, g \in FieldValues}

\* validateInputMiddleware: TRUE when next() is called, FALSE when the
\* answer is 400
validateInputMiddleware(body) ==
    /\ body.json
    /\ body.name.type = "string"
    /\ body.email.type = "string"
    /\ body.githubHandle.type = "string"

InitSignup ==
    /\ GooseOff
    /\ monitor = [deployed |-> FALSE]
    /\ api = [deployed |-> FALSE]
    /\ \E env \in Envs :
           signup = [deployed |-> TRUE,
                     env |-> env,
                     pc |-> "idle",
                     header |-> Undefined,
                     body |-> CHOOSE b \in Bodies : ~b.json,
                     status |-> 0,
                     users |-> <<>>,
                     slack |-> <<>>,
                     before |-> [users |-> <<>>, slack |-> <<>>],
                     served |-> 0]

\* a request POST /api/signup arrives
SignupRequest(h, b) ==
    /\ signup.deployed
    /\ signup.pc = "idle"
    /\ signup.served < MaxSignups
    /\ signup' = [signup EXCEPT
           !.pc = "auth", !.header = h, !.body = b, !.status = 0,
           !.before = [users |-> signup.users, slack |-> signup.slack],
           !.served = @ + 1]
    /\ UNCHANGED <<gooseVars, monitor, api>>

\* app.use("/api/signup", authenticationMiddleware, ...)
Authenticate ==
    /\ signup.deployed
    /\ signup.pc = "auth"
    /\ IF authenticationMiddleware(signup.header, signup.env)
       THEN signup' = [signup EXCEPT !.pc = "validate"]
       ELSE signup' = [signup EXCEPT !.pc = "done", !.status = 401]
    /\ UNCHANGED <<gooseVars, monitor, api>>

\* app.use("/api/signup", ..., validateInputMiddleware)
Validate ==
    /\ signup.deployed
    /\ signup.pc = "validate"
    /\ IF validateInputMiddleware(signup.body)
       THEN signup' = [signup EXCEPT !.pc = "handler"]
       ELSE signup' = [signup EXCEPT !.pc = "done", !.status = 400]
    /\ UNCHANGED <<gooseVars, monitor, api>>

\* the handler: the Slack message is sent off with waitUntil, then the
\* insert is awaited
SignupHandler ==
    /\ signup.deployed
    /\ signup.pc = "handler"
    /\ signup' = [signup EXCEPT
           !.slack = Append(@, signup.body.name.text),
           !.pc = "insert"]
    /\ UNCHANGED <<gooseVars, monitor, api>>

\* insertDb resolves: the row is written, or nothing on a conflict
\* (onConflictDoNothing), and the answer is 200
InsertResolve(conflict) ==
    /\ signup.deployed
    /\ signup.pc = "insert"
    /\ signup' = [signup EXCEPT
           !.users = IF conflict THEN @
                     ELSE Append(@, [name |-> signup.body.name.text,
                                     email |-> signup.body.email.text,
                                     githubHandle |->
                                         signup.body.githubHandle.text]),
           !.pc = "done",
           !.status = 200]
    /\ UNCHANGED <<gooseVars, monitor, api>>

\* insertDb rejects: the answer is 500
InsertReject ==
    /\ signup.deployed
    /\ signup.pc = "insert"
    /\ signup' = [signup EXCEPT !.pc = "done", !.status = 500]
    /\ UNCHANGED <<gooseVars, monitor, api>>

\* the response is sent
SignupRespond ==
    /\ signup.deployed
    /\ signup.pc = "done"
    /\ signup' = [signup EXCEPT !.pc = "idle"]
    /\ UNCHANGED <<gooseVars, monitor, api>>

NextSignup ==
    \/ \E h \in AuthHeaders, b \in Bodies : SignupRequest(h, b)
    \/ Authenticate
    \/ Validate
    \/ SignupHandler
    \/ \E conflict \in BOOLEAN : InsertResolve(conflict)
    \/ InsertReject
    \/ SignupRespond

SpecSignup == InitSignup /\ [][NextSignup]_vars

\* the header is "Basic " followed by the base64 encoding of
\* USER ":" PASSWORD and nothing else
PresentsCredentials(h, env) ==
    /\ h.defined
    /\ StartsWith(h.text, BasicPrefix)
    /\ LET token == SubSeq(h.text, Len(BasicPrefix) + 1, Len(h.text))
       IN  /\ \A i \in DOMAIN token : IsBase64(token[i]) \/ token[i] = "="
           /\ base64Decode(token)
                  = BytesOf(env.USER.text \o <<":">> \o env.PASSWORD.text)

\* C22: a request whose X-Custom-Auth header is absent, does not start
\* with "Basic " or does not decode to the configured username and
\* password is answered 401, no user row is inserted for it and no Slack
\* message is sent.
C22_UnauthenticatedRejected ==
    (signup.deployed /\ signup.pc = "done"
         /\ ~PresentsCredentials(signup.header, signup.env)) =>
        /\ signup.status = 401
        /\ signup.users = signup.before.users
        /\ signup.slack = signup.before.slack

(***************************************************************************)
(* The prompts API: POST, GET, PUT and DELETE of /api/prompts              *)
(* (SpecPrompts).  Each handler sends one statement to the database.       *)
(***************************************************************************)
MaxPrompts == 2

\* the values of the route parameter :id, after the decoding of the path
IdParams == { <<"1">>, <<"2">>, <<"1", "2">>, <<" ", "1">>, <<"0", "2">>,
              <<" ">>, <<"a">>, <<"1", "a">> }

\* s without its leading and trailing white space
RECURSIVE Trim(_)
Trim(s) ==
    IF s = <<>> THEN s
    ELSE IF s[1] = " " THEN Trim(Tail(s))
    ELSE IF s[Len(s)] = " " THEN Trim(SubSeq(s, 1, Len(s) - 1))
    ELSE s

\* Number(s): white space around the numeral is skipped, the empty string
\* is 0, and what is no numeral is NaN
Number(s) ==
    IF Trim(s) = <<>> THEN 0
    ELSE IF \A i \in DOMAIN Trim(s) : IsDigit(Trim(s)[i])
         THEN Decimal(Trim(s))
         ELSE NotANumber

isNaN(n) == n = NotANumber

\* the values of body.prompt
PromptValues == { [type |-> "undefined", text |-> <<>>, zero |-> FALSE],
                  [type |-> "number", text |-> <<>>, zero |-> TRUE],
                  [type |-> "number", text |-> <<>>, zero |-> FALSE],
                  [type |-> "string", text |-> <<>>, zero |-> FALSE],
                  [type |-> "string", text |-> <<"a">>, zero |-> FALSE],
                  [type |-> "string", text |-> <<"b">>, zero |-> FALSE] }

NoPrompt == [type |-> "undefined", text |-> <<>>, zero |-> FALSE]

\* the bodies of the requests: text that is no JSON, the JSON null, or a
\* JSON object
PromptBodies ==
    {[kind |-> "text", prompt |-> NoPrompt],
     [kind |-> "null", prompt |-> NoPrompt]}
        \cup {[kind |-> "object", prompt |-> v] : v \in PromptValues}

\* !prompt
Falsy(v) ==
    \/ v.type = "undefined"
    \/ v.type = "number" /\ v.zero
    \/ v.type = "string" /\ v.text = <<>>

\* !prompt || typeof prompt !== "string"
InvalidPrompt(v) == Falsy(v) \/ v.type # "string"

\* await c.req.json() rejects, or body.prompt throws: Hono answers 500
BodyThrows(body) == body.kind \in {"text", "null"}

NoRow == [id |-> 0, prompt |-> <<>>]

Response(status, row) == [status |-> status, row |-> row]

\* db.insert(prompts).values({prompt}).returning(): the id is the next
\* value of the sequence of the serial column
InsertPrompt_reuseId(table, serial, text) ==
    LET free == CHOOSE i \in 1..(Len(table) + 1) :
                    /\ \A r \in DOMAIN table : table[r].id # i
                    /\ \A j \in 1..(i - 1) :
                           \E r \in DOMAIN table : table[r].id = j
    IN  Append(table, [id |-> free, prompt |-> text])

InsertPrompt(table, serial, text) ==
    Append(table, [id |-> serial + 1, prompt |-> text])

\* the rows WHERE id = n
RowsWithId(table, n) == {r \in DOMAIN table : table[r].id = n}

\* db.update(prompts).set({prompt}).where(eq(prompts.id, id))
UpdatePrompt_upsert(table, n, text) ==
    IF RowsWithId(table, n) = {}
    THEN Append(table, [id |-> n, prompt |-> text])
    ELSE [r \in DOMAIN table |->
             IF table[r].id = n THEN [table[r] EXCEPT !.prompt = text]
             ELSE table[r]]

UpdatePrompt(table, n, text) ==
    [r \in DOMAIN table |->
        IF table[r].id = n THEN [table[r] EXCEPT !.prompt = text]
        ELSE table[r]]

\* db.delete(prompts).where(eq(prompts.id, id))
RECURSIVE DeleteRows(_, _)
DeleteRows(table, n) ==
    IF table = <<>> THEN <<>>
    ELSE IF Head(table).id = n THEN DeleteRows(Tail(table), n)
    ELSE <<Head(table)>> \o DeleteRows(Tail(table), n)

\* the first element of what .returning() or the select gave
FirstRow(table, n) ==
    IF RowsWithId(table, n) = {} THEN NoRow
    ELSE table[CHOOSE r \in RowsWithId(table, n) :
                   \A q \in RowsWithId(table, n) : r <= q]

Request(method, id, body, dbFails) ==
    [method |-> method, id |-> id, body |-> body, dbFails |-> dbFails]

InitPrompts ==
    /\ GooseOff
    /\ monitor = [deployed |-> FALSE]
    /\ signup = [deployed |-> FALSE]
    /\ api = [deployed |-> TRUE,
              table |-> <<>>,
              serial |-> 0,
              request |-> Request("none", <<>>, [kind |-> "text",
                                                 prompt |-> NoPrompt], FALSE),
              response |-> Response(0, NoRow),
              written |-> <<>>,
              removed |-> {},
              before |-> <<>>]

\* app.post("/api/prompts")
PostPrompt(body, dbFails) ==
    /\ api.deployed
    /\ api.serial < MaxPrompts
    /\ LET req == Request("POST", <<>>, body, dbFails)
       IN  IF BodyThrows(body)
           THEN api' = [api EXCEPT !.request = req,
                                   !.before = api.table,
                                   !.response = Response(500, NoRow)]
           ELSE IF InvalidPrompt(body.prompt)
           THEN api' = [api EXCEPT !.request = req,
                                   !.before = api.table,
                                   !.response = Response(400, NoRow)]
           ELSE IF dbFails
           THEN api' = [api EXCEPT !.request = req,
                                   !.before = api.table,
                                   !.response = Response(500, NoRow)]
           ELSE LET table == InsertPrompt(api.table, api.serial,
                                          body.prompt.text)
                    newPrompt == table[Len(table)]
                IN  api' = [api EXCEPT
                        !.request = req,
                        !.before = api.table,
                        !.table = table,
                        !.serial = @ + 1,
                        !.response = Response(200, newPrompt),
                        !.written = Append(@, newPrompt.prompt)]
    /\ UNCHANGED <<gooseVars, monitor, signup>>

\* app.get("/api/prompts/:id")
GetPrompt(id, dbFails) ==
    /\ api.deployed
    /\ LET req == Request("GET", id, [kind |-> "text", prompt |-> NoPrompt],
                          dbFails)
           n == Number(id)
       IN  IF isNaN(n)
           THEN api' = [api EXCEPT !.request = req,
                                   !.before = api.table,
                                   !.response = Response(400, NoRow)]
           ELSE IF dbFails
           THEN api' = [api EXCEPT !.request = req,
                                   !.before = api.table,
                                   !.response = Response(500, NoRow)]
           ELSE IF RowsWithId(api.table, n) = {}
           THEN api' = [api EXCEPT !.request = req,
                                   !.before = api.table,
                                   !.response = Response(404, NoRow)]
           ELSE api' = [api EXCEPT
                    !.request = req,
                    !.before = api.table,
                    !.response = Response(200, FirstRow(api.table, n))]
    /\ UNCHANGED <<gooseVars, monitor, signup>>

\* app.put("/api/prompts/:id")
PutPrompt(id, body, dbFails) ==
    /\ api.deployed
    /\ LET req == Request("PUT", id, body, dbFails)
           n == Number(id)
       IN  IF isNaN(n)
           THEN api' = [api EXCEPT !.request = req,
                                   !.before = api.table,
                                   !.response = Response(400, NoRow)]
           ELSE IF BodyThrows(body)
           THEN api' = [api EXCEPT !.request = req,
                                   !.before = api.table,
                                   !.response = Response(500, NoRow)]
           ELSE IF InvalidPrompt(body.prompt)
           THEN api' = [api EXCEPT !.request = req,
                                   !.before = api.table,
                                   !.response = Response(400, NoRow)]
           ELSE IF dbFails
           THEN api' = [api EXCEPT !.request = req,
                                   !.before = api.table,
                                   !.response = Response(500, NoRow)]
           ELSE LET table == UpdatePrompt(api.table, n, body.prompt.text)
                    updatedPrompt == FirstRow(table, n)
                IN  IF RowsWithId(table, n) = {}
                    THEN api' = [api EXCEPT
                             !.request = req,
                             !.before = api.table,
                             !.table = table,
                             !.response = Response(404, NoRow)]
                    ELSE api' = [api EXCEPT
                             !.request = req,
                             !.before = api.table,
                             !.table = table,
                             !.response = Response(200, updatedPrompt),
                             !.written[updatedPrompt.id] =
                                 updatedPrompt.prompt]
    /\ UNCHANGED <<gooseVars, monitor, signup>>

\* app.delete("/api/prompts/:id")
DeletePrompt(id, dbFails) ==
    /\ api.deployed
    /\ LET req == Request("DELETE", id,
                          [kind |-> "text", prompt |-> NoPrompt], dbFails)
           n == Number(id)
       IN  IF isNaN(n)
           THEN api' = [api EXCEPT !.request = req,
                                   !.before = api.table,
                                   !.response = Response(400, NoRow)]
           ELSE IF dbFails
           THEN api' = [api EXCEPT !.request = req,
                                   !.before = api.table,
                                   !.response = Response(500, NoRow)]
           ELSE IF RowsWithId(api.table, n) = {}
           THEN api' = [api EXCEPT
                    !.request = req,
                    !.before = api.table,
                    !.table = DeleteRows(api.table, n),
                    !.response = Response(404, NoRow)]
           ELSE api' = [api EXCEPT
                    !.request = req,
                    !.before = api.table,
                    !.table = DeleteRows(api.table, n),
                    !.response = Response(200, NoRow),
                    !.removed = @ \cup {n}]
    /\ UNCHANGED <<gooseVars, monitor, signup>>

NextPrompts ==
    \/ \E body \in PromptBodies, dbFails \in BOOLEAN :
           PostPrompt(body, dbFails)
    \/ \E id \in IdParams, dbFails \in BOOLEAN : GetPrompt(id, dbFails)
    \/ \E id \in IdParams, body \in PromptBodies, dbFails \in BOOLEAN :
           PutPrompt(id, body, dbFails)
    \/ \E id \in IdParams, dbFails \in BOOLEAN : DeletePrompt(id, dbFails)

SpecPrompts == InitPrompts /\ [][NextPrompts]_vars

\* the request in hand and the number its id is read as
Req == api.request

ReqId == Number(api.request.id)

Status == api.response.status

TableUnchanged == api.table = api.before

\* the prompt of the body is missing, empty or no string
BadPrompt(body) == body.kind # "object" \/ InvalidPrompt(body.prompt)

\* the id is no numeral, white space around it aside
NonNumericId(id) ==
    Trim(id) = <<>> \/ \E i \in DOMAIN Trim(id) : ~IsDigit(Trim(id)[i])

\* C23 as stated: POST or PUT with a missing, empty or non-string prompt is
\* answered 400, GET, PUT or DELETE with a non-numeric id is answered 400,
\* PUT or DELETE of an id that does not exist is answered 404, and in each
\* case the prompts table is left unchanged.
C23_RejectedWithStatus ==
    api.deployed =>
        /\ (Req.method = "POST" /\ BadPrompt(Req.body)) =>
               Status = 400 /\ TableUnchanged
        /\ (Req.method = "PUT" /\ BadPrompt(Req.body)) =>
               Status = 400 /\ TableUnchanged
        /\ (Req.method \in {"GET", "PUT", "DELETE"} /\ NonNumericId(Req.id)) =>
               Status = 400 /\ TableUnchanged
        /\ (/\ Req.method \in {"PUT", "DELETE"}
            /\ ~NonNumericId(Req.id)
            /\ Req.method = "PUT" => ~BadPrompt(Req.body)
            /\ ~Req.dbFails
            /\ RowsWithId(api.before, ReqId) = {}) =>
               Status = 404 /\ TableUnchanged

\* C23 as amended: a request answered 400, 404 or 500 leaves the prompts
\* table unchanged.  POST or PUT with a JSON body whose prompt is missing,
\* empty or no string is answered 400; a body that is no JSON or is null is
\* answered 500.  GET, PUT or DELETE with an id that Number() reads as NaN
\* is answered 400; an id of white space is read as 0 and answered like an
\* id that does not exist.  PUT or DELETE of an id that does not exist is
\* answered 404.
C23_RejectedChangesNothing ==
    api.deployed =>
        /\ Status \in {400, 404, 500} => TableUnchanged
        /\ (/\ Req.method \in {"POST", "PUT"}
            /\ Req.method = "PUT" => ~isNaN(ReqId)
            /\ BadPrompt(Req.body)) =>
               Status = (IF BodyThrows(Req.body) THEN 500 ELSE 400)
        /\ (Req.method \in {"GET", "PUT", "DELETE"} /\ isNaN(ReqId)) =>
               Status = 400
        /\ (Req.method \in {"GET", "PUT", "DELETE"} /\ Trim(Req.id) = <<>>) =>
               /\ ReqId = 0
               /\ Status # 400 \/ (Req.method = "PUT" /\ BadPrompt(Req.body))
        /\ (/\ Req.method \in {"GET", "PUT", "DELETE"}
            /\ ~isNaN(ReqId)
            /\ Req.method = "PUT" => ~BadPrompt(Req.body)
            /\ ~Req.dbFails
            /\ RowsWithId(api.before, ReqId) = {}) =>
               Status = 404

\* a PUT of an id that does not exist has been answered 404 and the rows
\* of the table are as they were
C23_Witness ==
    /\ api.deployed
    /\ Req.method = "PUT"
    /\ ~BadPrompt(Req.body)
    /\ Status = 404
    /\ api.before # <<>>
    /\ RowsWithId(api.before, ReqId) = {}
    /\ TableUnchanged

\* the prompts that were created and have not been deleted
Live == {i \in DOMAIN api.written : i \notin api.removed}

====
